---- MODULE Spec2Model ----
(***************************************************************************)
(* Model of src/server.js (lines 1-519: the serverless build of the        *)
(* student/course REST API).  The state is the process-wide connection     *)
(* cache, the two collections behind the Mongoose models Course and        *)
(* Student, and the position of every request that is being served.        *)
(*                                                                         *)
(* Node runs one callback at a time, so the code between two awaits is one *)
(* atomic action.  A store call (save, findById, countDocuments, ...) is   *)
(* one atomic operation of the store; the action of a handler is that call *)
(* together with the response the handler builds from its result.          *)
(*                                                                         *)
(* A request's method, path and body are first read by the router, after   *)
(* ensureDbConnection has called next(); the model draws them there.       *)
(***************************************************************************)
EXTENDS Integers, FiniteSets, Sequences, TLC

\* ---------------------------------------------------------------- bounds
\* Requests served at the same time.
MaxReqs == 2
\* Identifiers the ObjectId generator can hand out in one run.
MaxOid == 2
\* Cap of the counter of mongoose.connect invocations.
MaxConnectCalls == 3
\* Students in the store the dashboard's success rate is computed for.
MaxStudents == 40
\* Whole days of the uptimes that are formatted.
MaxDays == 1

Reqs == 1..MaxReqs

\* ----------------------------------------------------------- identifiers
\* The well-formed identifiers, in the order the generator issues them.
OidOrder == <<"oid1", "oid2", "oid3", "oid4", "oid5">>
ObjectIds == {OidOrder[i] : i \in 1..MaxOid}
\* Strings that are not in the store's identifier format; "search", the
\* literal path segment of the search route, is another one.
MalformedIds == {"zz"}
IdParams == ObjectIds \cup MalformedIds
\* The last segment of a GET /api/students/<segment>.
StudentGetParams == IdParams \cup {"search"}

\* ------------------------------------------------------------ documents
ABSENT == "absent"
StatusEnum == {"active", "inactive"}
CourseNames == {"Math", "Art"}
Emails == {"a@x", "b@x"}
\* Student.course is free text: a course identifier or anything else.
CourseRefs == {OidOrder[1], "zz"}

\* A JSON request body: the fields the two schemas know, each given or not.
EmptyBody ==
    [_id |-> ABSENT, name |-> ABSENT, description |-> ABSENT,
     duration |-> ABSENT, email |-> ABSENT, course |-> ABSENT,
     enrollmentDate |-> ABSENT, status |-> ABSENT]

VARIABLES
    atlasURI,        \* whether process.env.MONGO_URI is set
    cached,          \* global.mongoose: [conn, promise]
    connectCalls,    \* how often mongoose.connect has been invoked
    pc,              \* per request: where it stands
    arg,             \* per request: what a handler keeps across its awaits
    Course,          \* the courses collection: a set of documents
    Student,         \* the students collection: a set of documents
    oidCounter,      \* identifiers issued by the ObjectId generator
    deletedCourses,  \* history: course ids a DELETE has answered 200 for
    res              \* the response sent by the last step, NoRes if none

vars == <<atlasURI, cached, connectCalls, pc, arg, Course, Student,
          oidCounter, deletedCourses, res>>

conn == <<atlasURI, cached, connectCalls>>
store == <<Course, Student, oidCounter, deletedCourses>>

\* A response: the route that answered, its :id, the status, the error
\* whose message a catch block sends back ("none" when nothing was thrown),
\* and the JSON payload where the model follows it: the set of the documents
\* of an array, or the one object sent ({} where the model does not).
NoRes == [route |-> "none", id |-> "-", status |-> 0, error |-> "none", body |-> {}]
ResponseWith(route, id, status, error, body) ==
    [route |-> route, id |-> id, status |-> status, error |-> error, body |-> body]
Response(route, id, status, error) == ResponseWith(route, id, status, error, {})

\* ------------------------------------------------------------ connectDB
\* line 39: a new attempt is started only when no attempt is cached.
NeedsNewPromiseAlways(c) == TRUE
NeedsNewPromise(c) == c.promise = "none"

\* A request under /api arrives: ensureDbConnection (line 159) calls
\* connectDB, which runs up to its first await or throw (lines 31-58).
Arrive(r) ==
    /\ pc[r] = "idle"
    /\ pc' = [pc EXCEPT ![r] = "awaitConnectDB"]
    /\ res' = NoRes
    /\ UNCHANGED <<atlasURI, arg, store>>
    /\ IF ~cached.conn /\ NeedsNewPromise(cached) /\ atlasURI
       THEN \* line 48: cached.promise = mongoose.connect(atlasURI, opts)
            /\ connectCalls < MaxConnectCalls
            /\ cached' = [cached EXCEPT !.promise = "pending"]
            /\ connectCalls' = connectCalls + 1
       ELSE \* line 35: return cached.conn; line 41: throw; or line 58:
            \* await the promise that is cached
            UNCHANGED <<cached, connectCalls>>

\* The store answers the connection attempt (lines 48-54).
ConnectFulfilled ==
    /\ cached.promise = "pending"
    /\ cached' = [cached EXCEPT !.promise = "fulfilled"]
    /\ res' = NoRes
    /\ UNCHANGED <<atlasURI, connectCalls, pc, arg, store>>

ConnectRejected ==
    /\ cached.promise = "pending"
    /\ cached' = [cached EXCEPT !.promise = "rejected"]
    /\ res' = NoRes
    /\ UNCHANGED <<atlasURI, connectCalls, pc, arg, store>>

\* Whether the connectDB call a request awaits has ended, and how: it
\* returns the cached handle (line 35) or the awaited one (lines 58-59),
\* and throws when the URI is missing (line 41) or the promise is rejected.
ConnectDBSettled == cached.conn \/ cached.promise # "pending"
ConnectDBReturns == cached.conn \/ cached.promise = "fulfilled"

\* ---------------------------------------------------- ensureDbConnection
\* lines 158-164: next() after connectDB returned, 503 after it threw.
AfterConnectAlwaysNext(returned) == "handler"
AfterConnect(returned) == IF returned THEN "handler" ELSE "idle"

\* The awaits of lines 58 and 159 end: connectDB stores the handle and
\* returns, or throws, and the middleware goes on.
EnsureDbConnection(r) ==
    /\ pc[r] = "awaitConnectDB"
    /\ ConnectDBSettled
    /\ cached' = [cached EXCEPT !.conn = ConnectDBReturns]
    /\ pc' = [pc EXCEPT ![r] = AfterConnect(ConnectDBReturns)]
    /\ res' = IF pc'[r] = "handler" THEN NoRes ELSE Response("/api", "-", 503, "none")
    /\ UNCHANGED <<atlasURI, connectCalls, arg, store>>

\* ------------------------------------------------------------- schemas
\* required: true (lines 130-133, 143-145): null, undefined and "" fail.
Required(v) == v # ABSENT

\* enum: ["active", "inactive"] (lines 134, 146); an omitted status passes.
EnumAny(s) == TRUE
Enum(s) == s = ABSENT \/ s \in StatusEnum

\* default: "active" (lines 134, 146).
DefaultStatus(s) == IF s = ABSENT THEN "active" ELSE s

\* type: Number (line 145) and type: Date (line 133): the cast of a value.
Castable(v) == v \notin {"soon"}

\* mongoose.Types.ObjectId.isValid (line 368), and the cast of an :id or of
\* a body's _id to an ObjectId.
IsValidObjectId(id) == id \in ObjectIds

\* courseSchema (lines 141-150): document validation at save().
CourseValid(body) ==
    /\ body._id = ABSENT \/ IsValidObjectId(body._id)
    /\ Required(body.name)
    /\ Required(body.description)
    /\ Required(body.duration) /\ Castable(body.duration)
    /\ Enum(body.status)

\* studentSchema (lines 128-137): document validation at save().
StudentValid(body) ==
    /\ body._id = ABSENT \/ IsValidObjectId(body._id)
    /\ Required(body.name)
    /\ Required(body.email)
    /\ Required(body.course)
    /\ Required(body.enrollmentDate) /\ Castable(body.enrollmentDate)
    /\ Enum(body.status)

\* new Course(req.body) (line 188): the schema's paths, status defaulted.
CourseDoc(id, body) ==
    [_id |-> id, name |-> body.name, description |-> body.description,
     duration |-> body.duration, status |-> DefaultStatus(body.status)]

\* new Student(req.body) (line 284).
StudentDoc(id, body) ==
    [_id |-> id, name |-> body.name, email |-> body.email,
     course |-> body.course, enrollmentDate |-> body.enrollmentDate,
     status |-> DefaultStatus(body.status)]

\* unique: true (lines 131, 143): the unique index refuses a write that
\* would give a second document of the collection the same value.
UniqueViolationNever(coll, field, value, self) == FALSE
UniqueViolation(coll, field, value, self) ==
    \E d \in coll : d._id # self /\ d[field] = value

\* -------------------------------------------------------- store operations
FindByIdUnreferenced(coll, id) ==
    {d \in coll : d._id = id /\ ~\E s \in Student : s.course = id}
FindById(coll, id) == {d \in coll : d._id = id}

\* The identifier of a new document: the body's _id when it carries one,
\* else the next identifier of the ObjectId generator.
NewIdReused(body) == IF body._id # ABSENT THEN body._id ELSE OidOrder[1]
NewId(body) == IF body._id # ABSENT THEN body._id ELSE OidOrder[oidCounter + 1]

\* document.save() (lines 189, 285): validation, then the insert, which
\* the unique indexes of the field and of _id can refuse.
SaveError(coll, valid, field, body) ==
    IF ~valid THEN "ValidationError"
    ELSE IF UniqueViolation(coll, field, body[field], ABSENT) THEN "E11000"
    ELSE IF FindById(coll, NewId(body)) # {} THEN "E11000"
    ELSE "none"

\* findByIdAndUpdate's options (lines 203-205, 300-302): { new: true }.
\* runValidators is not set, so update validators do not run.
UpdateOptions == [new |-> TRUE, runValidators |-> FALSE]

\* The update document { $set: body } applied to a stored document.
Merge(old, body) ==
    [f \in DOMAIN old |->
        IF f # "_id" /\ body[f] # ABSENT THEN body[f] ELSE old[f]]

\* findByIdAndUpdate(id, body, { new: true }) (lines 203, 300) on a stored
\* document: the error it throws, "none" when the update is written.
UpdateError(coll, field, old, body) ==
    IF UpdateOptions.runValidators /\ ~Enum(body.status) THEN "ValidationError"
    ELSE IF UniqueViolation(coll, field, Merge(old, body)[field], old._id)
    THEN "E11000"
    ELSE "none"

\* Student.countDocuments({ course: id }) (lines 223-225).
countDocuments(id) == Cardinality({s \in Student : s.course = id})

\* line 226: if (enrolledStudents > 0)
EnrolledAtLeastTwo(n) == n > 1
Enrolled(n) == n > 0

\* ------------------------------------------------------- request bodies
\* The bodies are the ones that tell the cases of the schemas apart.  A
\* body that names its own _id names a malformed one or a course
\* identifier the API has answered with: one of a stored course or one of
\* a deleted course.
KnownCourseIds == {d._id : d \in Course} \cup deletedCourses
FullCourse(n) ==
    [EmptyBody EXCEPT !.name = n, !.description = "about", !.duration = "12"]
CoursePostBodies ==
    {FullCourse(n) : n \in CourseNames}
    \cup {[FullCourse(n) EXCEPT !.status = s] :
            n \in CourseNames, s \in {"inactive", "archived"}}
    \cup {[FullCourse("Math") EXCEPT ![f] = ABSENT] :
            f \in {"name", "description", "duration"}}
    \cup {[FullCourse("Math") EXCEPT !.duration = "soon"]}
    \cup {[FullCourse(n) EXCEPT !._id = i] :
            n \in CourseNames, i \in KnownCourseIds \cup MalformedIds}
CoursePutBodies ==
    {[EmptyBody EXCEPT !.name = n] : n \in CourseNames}
    \cup {[EmptyBody EXCEPT !.status = s] : s \in StatusEnum \cup {"archived"}}

FullStudent(e, c) ==
    [EmptyBody EXCEPT !.name = "Ann", !.email = e, !.course = c,
                      !.enrollmentDate = "2024-01-01"]
StudentPostBodies ==
    {FullStudent(e, c) : e \in Emails, c \in CourseRefs}
    \cup {[FullStudent(e, "zz") EXCEPT !.status = s] :
            e \in Emails, s \in {"inactive", "archived"}}
    \cup {[FullStudent("a@x", "zz") EXCEPT ![f] = ABSENT] :
            f \in {"name", "email", "course", "enrollmentDate"}}
    \cup {[FullStudent("a@x", "zz") EXCEPT !.enrollmentDate = "soon"]}
StudentPutBodies ==
    {[EmptyBody EXCEPT !.email = e] : e \in Emails}
    \cup {[EmptyBody EXCEPT !.course = c] : c \in CourseRefs}
    \cup {[EmptyBody EXCEPT !.status = s] : s \in StatusEnum \cup {"archived"}}

\* The route a GET /api/students/<segment> reaches: the search route is
\* registered first (line 342) and takes the literal segment "search".
StudentGetRouteById(id) == "GET /api/students/:id"
StudentGetRoute(id) ==
    IF id = "search" THEN "GET /api/students/search" ELSE "GET /api/students/:id"

\* --------------------------------------------------------- course routes
\* lines 175-184
ListCourses(r) ==
    /\ pc[r] = "handler"
    /\ pc' = [pc EXCEPT ![r] = "idle"]
    /\ res' = Response("GET /api/courses", "-", 200, "none")
    /\ UNCHANGED <<conn, arg, store>>

\* lines 186-199
PostCourse(r, body) ==
    /\ pc[r] = "handler"
    /\ pc' = [pc EXCEPT ![r] = "idle"]
    /\ UNCHANGED <<conn, arg, Student, deletedCourses>>
    /\ LET error == SaveError(Course, CourseValid(body), "name", body)
       IN IF error = "none"
          THEN /\ body._id = ABSENT => oidCounter < MaxOid
               /\ Course' = Course \cup {CourseDoc(NewId(body), body)}
               /\ oidCounter' = IF body._id = ABSENT THEN oidCounter + 1 ELSE oidCounter
               /\ res' = Response("POST /api/courses", NewId(body), 201, "none")
          ELSE /\ UNCHANGED <<Course, oidCounter>>
               /\ res' = Response("POST /api/courses", "-", 400, error)

\* lines 201-219
PutCourse(r, id, body) ==
    /\ pc[r] = "handler"
    /\ pc' = [pc EXCEPT ![r] = "idle"]
    /\ UNCHANGED <<conn, arg, Student, oidCounter, deletedCourses>>
    /\ IF ~IsValidObjectId(id)
       THEN \* caught at line 215
            /\ res' = Response("PUT /api/courses/:id", id, 400, "CastError")
            /\ UNCHANGED Course
       ELSE IF FindById(Course, id) = {}
       THEN /\ res' = Response("PUT /api/courses/:id", id, 404, "none")
            /\ UNCHANGED Course
       ELSE LET old == CHOOSE d \in Course : d._id = id
                error == UpdateError(Course, "name", old, body)
            IN IF error # "none"
               THEN /\ res' = Response("PUT /api/courses/:id", id, 400, error)
                    /\ UNCHANGED Course
               ELSE /\ res' = Response("PUT /api/courses/:id", id, 200, "none")
                    /\ Course' = (Course \ {old}) \cup {Merge(old, body)}

\* lines 221-234: the dependency check
DeleteCourseCount(r, id) ==
    /\ pc[r] = "handler"
    /\ UNCHANGED <<conn, store>>
    /\ IF Enrolled(countDocuments(id))
       THEN /\ pc' = [pc EXCEPT ![r] = "idle"]
            /\ res' = Response("DELETE /api/courses/:id", id, 400, "none")
            /\ UNCHANGED arg
       ELSE /\ pc' = [pc EXCEPT ![r] = "deleteCourse"]
            /\ arg' = [arg EXCEPT ![r] = id]
            /\ res' = NoRes

\* lines 236-251: Course.findByIdAndDelete
DeleteCourse(r) ==
    /\ pc[r] = "deleteCourse"
    /\ pc' = [pc EXCEPT ![r] = "idle"]
    /\ arg' = [arg EXCEPT ![r] = "-"]
    /\ UNCHANGED <<conn, Student, oidCounter>>
    /\ IF ~IsValidObjectId(arg[r])
       THEN \* caught at line 248
            /\ res' = Response("DELETE /api/courses/:id", arg[r], 500, "CastError")
            /\ UNCHANGED <<Course, deletedCourses>>
       ELSE IF FindById(Course, arg[r]) = {}
       THEN /\ res' = Response("DELETE /api/courses/:id", arg[r], 404, "none")
            /\ UNCHANGED <<Course, deletedCourses>>
       ELSE /\ res' = Response("DELETE /api/courses/:id", arg[r], 200, "none")
            /\ Course' = Course \ FindById(Course, arg[r])
            /\ deletedCourses' = deletedCourses \cup {arg[r]}

\* lines 254-265
GetCourse(r, id) ==
    /\ pc[r] = "handler"
    /\ pc' = [pc EXCEPT ![r] = "idle"]
    /\ UNCHANGED <<conn, arg, store>>
    /\ res' = IF ~IsValidObjectId(id)    \* caught at line 261
              THEN Response("GET /api/courses/:id", id, 500, "CastError")
              ELSE IF FindById(Course, id) = {}
              THEN Response("GET /api/courses/:id", id, 404, "none")
              ELSE Response("GET /api/courses/:id", id, 200, "none")

\* -------------------------------------------------------- student routes
\* lines 271-280
ListStudents(r) ==
    /\ pc[r] = "handler"
    /\ pc' = [pc EXCEPT ![r] = "idle"]
    /\ res' = Response("GET /api/students", "-", 200, "none")
    /\ UNCHANGED <<conn, arg, store>>

\* lines 282-296
PostStudent(r, body) ==
    /\ pc[r] = "handler"
    /\ pc' = [pc EXCEPT ![r] = "idle"]
    /\ UNCHANGED <<conn, arg, Course, deletedCourses>>
    /\ LET error == SaveError(Student, StudentValid(body), "email", body)
       IN IF error = "none"
          THEN /\ body._id = ABSENT => oidCounter < MaxOid
               /\ Student' = Student \cup {StudentDoc(NewId(body), body)}
               /\ oidCounter' = IF body._id = ABSENT THEN oidCounter + 1 ELSE oidCounter
               /\ res' = Response("POST /api/students", NewId(body), 201, "none")
          ELSE /\ UNCHANGED <<Student, oidCounter>>
               /\ res' = Response("POST /api/students", "-", 400, error)

\* lines 298-319
PutStudent(r, id, body) ==
    /\ pc[r] = "handler"
    /\ pc' = [pc EXCEPT ![r] = "idle"]
    /\ UNCHANGED <<conn, arg, Course, oidCounter, deletedCourses>>
    /\ IF ~IsValidObjectId(id)
       THEN \* caught at line 315
            /\ res' = Response("PUT /api/students/:id", id, 400, "CastError")
            /\ UNCHANGED Student
       ELSE IF FindById(Student, id) = {}
       THEN /\ res' = Response("PUT /api/students/:id", id, 404, "none")
            /\ UNCHANGED Student
       ELSE LET old == CHOOSE d \in Student : d._id = id
                error == UpdateError(Student, "email", old, body)
            IN IF error # "none"
               THEN /\ res' = Response("PUT /api/students/:id", id, 400, error)
                    /\ UNCHANGED Student
               ELSE /\ res' = Response("PUT /api/students/:id", id, 200, "none")
                    /\ Student' = (Student \ {old}) \cup {Merge(old, body)}

\* lines 321-340
DeleteStudent(r, id) ==
    /\ pc[r] = "handler"
    /\ pc' = [pc EXCEPT ![r] = "idle"]
    /\ UNCHANGED <<conn, arg, Course, oidCounter, deletedCourses>>
    /\ IF ~IsValidObjectId(id)
       THEN \* caught at line 336
            /\ res' = Response("DELETE /api/students/:id", id, 500, "CastError")
            /\ UNCHANGED Student
       ELSE IF FindById(Student, id) = {}
       THEN /\ res' = Response("DELETE /api/students/:id", id, 404, "none")
            /\ UNCHANGED Student
       ELSE /\ res' = Response("DELETE /api/students/:id", id, 200, "none")
            /\ Student' = Student \ FindById(Student, id)

\* --------------------------------------------------------------- search
\* The characters of the strings the documents of the model hold.
Chars(s) ==
    CASE s = "Ann" -> <<"A", "n", "n">>
      [] s = "a@x" -> <<"a", "@", "x">>
      [] s = "b@x" -> <<"b", "@", "x">>
      [] s = "oid1" -> <<"o", "i", "d", "1">>
      [] s = "zz" -> <<"z", "z">>

\* req.query.q (line 344): the search term, character by character.
Queries ==
    {<<"a", "n">>, <<"N", "N">>, <<"@">>, <<"a", ".">>, <<"n", ".", "x">>, <<"(">>}

\* $options: "i" (lines 348-350): the letters of the model, case folded.
Lower(c) == CASE c = "A" -> "a" [] c = "N" -> "n" [] OTHER -> c

\* $regex: searchTerm (lines 348-350): the term is the source of a regular
\* expression.  Of its syntax the model has the literal character, the dot,
\* which stands for any character, and the opening parenthesis, which
\* without its closing one makes the expression one the store refuses.
RegexValid(q) == \A i \in 1..Len(q) : q[i] # "("
AtomMatches(a, c) == a = "." \/ Lower(a) = Lower(c)
RegexTest(q, str) ==
    \E i \in 1..(Len(str) - Len(q) + 1) :
        \A j \in 1..Len(q) : AtomMatches(q[j], str[i + j - 1])

\* Student.find({ $or: [name, course, email] }) (lines 347-353).
FindStudents(q) ==
    {s \in Student :
        \/ RegexTest(q, Chars(s.name))
        \/ RegexTest(q, Chars(s.course))
        \/ RegexTest(q, Chars(s.email))}

\* lines 342-364, for a query q that is given: a read of the students
\* collection, answered with the array of the students found, or 500 when
\* the store refuses the expression (caught at line 360).
SearchStudents(r, id, q) ==
    /\ pc[r] = "handler"
    /\ StudentGetRoute(id) = "GET /api/students/search"
    /\ pc' = [pc EXCEPT ![r] = "idle"]
    /\ res' = IF RegexValid(q)
              THEN ResponseWith("GET /api/students/search", id, 200, "none",
                                FindStudents(q))
              ELSE Response("GET /api/students/search", id, 500, "MongoServerError")
    /\ UNCHANGED <<conn, arg, store>>

\* lines 366-382
GetStudent(r, id) ==
    /\ pc[r] = "handler"
    /\ StudentGetRoute(id) = "GET /api/students/:id"
    /\ pc' = [pc EXCEPT ![r] = "idle"]
    /\ UNCHANGED <<conn, arg, store>>
    /\ res' = IF ~IsValidObjectId(id)    \* lines 368-370
              THEN Response("GET /api/students/:id", id, 400, "none")
              ELSE IF FindById(Student, id) = {}
              THEN Response("GET /api/students/:id", id, 404, "none")
              ELSE Response("GET /api/students/:id", id, 200, "none")

\* ------------------------------------------------------- JavaScript numbers
\* A Number is an IEEE 754 double: a significand of 53 binary digits and a
\* power of two.  The model writes a positive double as [sig, exp]: the value
\* is sig * 2^exp, and sig, a whole number of exactly 53 binary digits, is
\* written as five digits of base 2^13, the first of them 1.  Zero has the
\* empty significand.  An operation gives the double nearest to the exact
\* result, the one with an even significand when two are equally near.
\* The operands of the model are the counts of a collection and 100.
Precision == 53
Base == 2^13
Zero == [sig |-> <<>>, exp |-> 0]
One == <<1, 0, 0, 0, 0>>

Front(digits) == SubSeq(digits, 1, Len(digits) - 1)
Last(digits) == digits[Len(digits)]

\* The whole number a sequence of digits of base 2^13 writes.
RECURSIVE DigitsNat(_)
DigitsNat(digits) ==
    IF digits = <<>> THEN 0 ELSE Base * DigitsNat(Front(digits)) + Last(digits)

\* The number of binary digits of a whole number.
RECURSIVE BitLength(_)
BitLength(k) == IF k = 0 THEN 0 ELSE 1 + BitLength(k \div 2)

\* digits + 1; a carry out of the first digit stays in the first digit.
RECURSIVE Inc(_)
Inc(digits) ==
    IF Len(digits) = 1 \/ Last(digits) < Base - 1
    THEN Front(digits) \o <<Last(digits) + 1>>
    ELSE Inc(Front(digits)) \o <<0>>

\* Round to nearest, ties to even: digits is the significand kept, cut tells
\* how what was cut off compares with half a unit of the last place.
RoundTruncate(digits, cut) == digits
RoundNearestEven(digits, cut) ==
    IF cut = "above" \/ (cut = "half" /\ Last(digits) % 2 = 1)
    THEN Inc(digits)
    ELSE digits

\* The double of a rounded significand: a carry out of the first digit has
\* made it 2^53, which is 2^52 with the next power of two.
Double(digits, exp) ==
    IF digits[1] > 1 THEN [sig |-> One, exp |-> exp + 1]
    ELSE [sig |-> digits, exp |-> exp]

\* The next n digits of r / d, 0 <= r < d, and the remainder left.
RECURSIVE DivDigits(_, _, _)
DivDigits(r, d, n) ==
    IF n = 0 THEN [digits |-> <<>>, rem |-> r]
    ELSE LET rest == DivDigits((r * Base) % d, d, n - 1)
         IN [digits |-> <<(r * Base) \div d>> \o rest.digits, rem |-> rest.rem]

\* a / b = (a1 / b1) * 2^e with 1 <= a1 / b1 < 2.
RECURSIVE Scale(_, _, _)
Scale(a, b, e) ==
    IF a < b THEN Scale(2 * a, b, e - 1)
    ELSE IF a >= 2 * b THEN Scale(a, 2 * b, e + 1)
    ELSE [a |-> a, b |-> b, e |-> e]

\* a / b in JavaScript, a and b whole numbers, a >= 0, b > 0.
Divide(a, b) ==
    IF a = 0 THEN Zero
    ELSE LET scaled == Scale(a, b, 0)
             quot == DivDigits(scaled.a - scaled.b, scaled.b, Len(One) - 1)
             cutQ == IF 2 * quot.rem > scaled.b THEN "above"
                     ELSE IF 2 * quot.rem = scaled.b THEN "half" ELSE "below"
         IN Double(RoundNearestEven(<<1>> \o quot.digits, cutQ),
                   scaled.e - (Precision - 1))

\* digits * n + carry, n a small whole number; the first digit of the
\* result takes what is beyond base 2^13.
RECURSIVE MulDigits(_, _, _)
MulDigits(digits, n, carry) ==
    IF Len(digits) = 1 THEN <<digits[1] * n + carry>>
    ELSE LET t == Last(digits) * n + carry
         IN MulDigits(Front(digits), n, t \div Base) \o <<t % Base>>

\* digits \div 2^k, k < 13, and what is cut off; rem is what the digits
\* before have left.
RECURSIVE ShiftRight(_, _, _)
ShiftRight(digits, k, rem) ==
    IF digits = <<>> THEN [digits |-> <<>>, rem |-> rem]
    ELSE LET v == rem * Base + digits[1]
             tail == ShiftRight(Tail(digits), k, v % (2^k))
         IN [digits |-> <<v \div (2^k)>> \o tail.digits, rem |-> tail.rem]

\* x * n in JavaScript, x a double, n a small whole number, n > 0.
Times(x, n) ==
    IF x.sig = <<>> THEN Zero
    ELSE LET prod == MulDigits(x.sig, n, 0)
             drop == BitLength(prod[1]) - 1
             kept == ShiftRight(prod, drop, 0)
             cutP == IF drop = 0 \/ 2 * kept.rem < 2^drop THEN "below"
                     ELSE IF 2 * kept.rem = 2^drop THEN "half" ELSE "above"
         IN Double(RoundNearestEven(kept.digits, cutP), x.exp + drop)

\* Math.round(y), y a double that is not negative and is small enough for
\* its whole part to be a 32-bit integer: the nearest whole number, the
\* larger one of two that are equally near.
MathRound(y) ==
    IF y.sig = <<>> \/ 0 - y.exp > Precision THEN 0
    ELSE LET half == 0 - y.exp - 1     \* y = sig / 2^(half + 1)
             whole == half \div 13
             twice == DigitsNat(SubSeq(y.sig, 1, Len(y.sig) - whole))
                          \div (2^(half % 13))
         IN (twice \div 2) + (twice % 2)

\* ------------------------------------------------------------- dashboard
\* line 418: totalStudents > 0 ? Math.round((graduates / totalStudents) * 100) : 0
successRate(totalStudents, graduates) ==
    IF totalStudents > 0
    THEN MathRound(Times(Divide(graduates, totalStudents), 100))
    ELSE 0

\* The counts getDashboardStats has read (lines 402-406), none read yet.
NoCounts ==
    [totalStudents |-> 0, activeStudents |-> 0, totalCourses |-> 0,
     activeCourses |-> 0, graduates |-> 0]

\* Model.countDocuments({ status: status })
CountStatus(coll, status) == Cardinality({d \in coll : d.status = status})

\* lines 407-409: Student.aggregate([{ $group: { _id: "$course", count } }])
courseCounts ==
    {[_id |-> c, count |-> Cardinality({s \in Student : s.course = c})] :
        c \in {s.course : s \in Student}}

\* lines 411-419: the object getDashboardStats returns.
DashboardStats(counts, groups) ==
    [totalStudents |-> counts.totalStudents,
     activeStudents |-> counts.activeStudents,
     totalCourses |-> counts.totalCourses,
     activeCourses |-> counts.activeCourses,
     graduates |-> counts.graduates,
     courseCounts |-> groups,
     successRate |-> successRate(counts.totalStudents, counts.graduates)]

\* One of the first five store queries of getDashboardStats: the handler
\* stands at the await `at`, the store answers count, which is kept as
\* `field`, and the handler goes on to the await `next`.
CountStep(r, at, field, count, next) ==
    /\ pc[r] = at
    /\ pc' = [pc EXCEPT ![r] = next]
    /\ arg' = [arg EXCEPT ![r] =
                [(IF at = "handler" THEN NoCounts ELSE arg[r]) EXCEPT ![field] = count]]
    /\ res' = NoRes
    /\ UNCHANGED <<conn, store>>

\* line 402
CountTotalStudents(r) ==
    CountStep(r, "handler", "totalStudents", Cardinality(Student), "activeStudents")
\* line 403
CountActiveStudents(r) ==
    CountStep(r, "activeStudents", "activeStudents", CountStatus(Student, "active"),
              "totalCourses")
\* line 404
CountTotalCourses(r) ==
    CountStep(r, "totalCourses", "totalCourses", Cardinality(Course), "activeCourses")
\* line 405
CountActiveCourses(r) ==
    CountStep(r, "activeCourses", "activeCourses", CountStatus(Course, "active"),
              "graduates")
\* line 406
CountGraduates(r) ==
    CountStep(r, "graduates", "graduates", CountStatus(Student, "inactive"),
              "courseCounts")

\* lines 407-419 and 391-393: the aggregate is answered, getDashboardStats
\* returns the object and the route sends it.
AggregateCourseCounts(r) ==
    /\ pc[r] = "courseCounts"
    /\ pc' = [pc EXCEPT ![r] = "idle"]
    /\ arg' = [arg EXCEPT ![r] = "-"]
    /\ res' = ResponseWith("GET /api/dashboard/stats", "-", 200, "none",
                           {DashboardStats(arg[r], courseCounts)})
    /\ UNCHANGED <<conn, store>>

\* lines 389-420: GET /api/dashboard/stats, await by await.
GetDashboardStats(r) ==
    \/ CountTotalStudents(r)
    \/ CountActiveStudents(r)
    \/ CountTotalCourses(r)
    \/ CountActiveCourses(r)
    \/ CountGraduates(r)
    \/ AggregateCourseCounts(r)

\* ---------------------------------------------------------------- health
\* line 425: res.status(200)
HealthStatusByConnection == IF cached.conn THEN 200 ELSE 503
HealthStatus == 200

\* lines 424-431: GET /health.  The route is not under /api, so the
\* middleware of line 168 does not run, and the handler has no await.
Health ==
    /\ res' = ResponseWith("GET /health", "-", HealthStatus, "none",
                           {[status |-> "UP"]})
    /\ UNCHANGED <<conn, pc, arg, store>>

\* process.uptime() (line 440): seconds with a fraction, here in
\* thousandths of a second.
Uptimes ==
    {1000 * (d * 86400 + h * 3600 + m * 60 + sec) + f :
        d \in 0..MaxDays, h \in {0, 1, 23}, m \in {0, 1, 59},
        sec \in {0, 1, 30}, f \in {0, 500}}

\* Math.floor (line 481) and Math.round (line 449) of thousandths.
MathFloor(ms) == ms \div 1000
MathRoundSeconds(ms) == (ms + 500) \div 1000

\* parts.join(' ') (line 498)
RECURSIVE Join(_)
Join(parts) ==
    IF parts = <<>> THEN ""
    ELSE IF Len(parts) = 1 THEN parts[1]
    ELSE parts[1] \o " " \o Join(Tail(parts))

\* line 496: if (parts.length === 0 || remainingSeconds > 0)
PushSecondsAlways(parts, remainingSeconds) == TRUE
PushSeconds(parts, remainingSeconds) == Len(parts) = 0 \/ remainingSeconds > 0

\* lines 480-499
formatUptime(ms) ==
    LET seconds == MathFloor(ms)
        days == seconds \div 86400
        hours == (seconds % 86400) \div 3600
        minutes == ((seconds % 86400) % 3600) \div 60
        remainingSeconds == ((seconds % 86400) % 3600) % 60
        parts1 == IF days > 0 THEN <<ToString(days) \o "d">> ELSE <<>>
        parts2 == IF hours > 0 THEN parts1 \o <<ToString(hours) \o "h">> ELSE parts1
        parts3 == IF minutes > 0 THEN parts2 \o <<ToString(minutes) \o "m">> ELSE parts2
        parts4 == IF PushSeconds(parts3, remainingSeconds)
                  THEN parts3 \o <<ToString(remainingSeconds) \o "s">>
                  ELSE parts3
    IN Join(parts4)

\* lines 435-476: GET /health/detailed at the uptime ms; of the object it
\* sends the model has the status, the state of the connection and the
\* uptime.  mongoose.connection.readyState is 1 once mongoose.connect has
\* been fulfilled.
HealthDetailed(ms) ==
    /\ res' = ResponseWith("GET /health/detailed", "-", 200, "none",
            {[status |-> "UP",
              database |-> IF cached.promise = "fulfilled"
                           THEN "Connected" ELSE "Disconnected",
              uptime |-> [seconds |-> MathRoundSeconds(ms),
                          formatted |-> formatUptime(ms)]]})
    /\ UNCHANGED <<conn, pc, arg, store>>

\* ----------------------------------------------------------------- spec
Init ==
    /\ atlasURI \in BOOLEAN
    /\ cached = [conn |-> FALSE, promise |-> "none"]
    /\ connectCalls = 0
    /\ pc = [r \in Reqs |-> "idle"]
    /\ arg = [r \in Reqs |-> "-"]
    /\ Course = {}
    /\ Student = {}
    /\ oidCounter = 0
    /\ deletedCourses = {}
    /\ res = NoRes

\* What the serving of request r can do next.
Serve(r) ==
    \/ Arrive(r)
    \/ EnsureDbConnection(r)
    \/ ListCourses(r)
    \/ \E body \in CoursePostBodies : PostCourse(r, body)
    \/ \E id \in IdParams, body \in CoursePutBodies : PutCourse(r, id, body)
    \/ \E id \in IdParams : DeleteCourseCount(r, id)
    \/ DeleteCourse(r)
    \/ \E id \in IdParams : GetCourse(r, id)
    \/ ListStudents(r)
    \/ \E body \in StudentPostBodies : PostStudent(r, body)
    \/ \E id \in IdParams, body \in StudentPutBodies : PutStudent(r, id, body)
    \/ \E id \in IdParams : DeleteStudent(r, id)
    \/ \E id \in StudentGetParams, q \in Queries : SearchStudents(r, id, q)
    \/ \E id \in StudentGetParams : GetStudent(r, id)

\* Requests are served concurrently.
Next ==
    \/ ConnectFulfilled
    \/ ConnectRejected
    \/ Health
    \/ \E r \in Reqs : Serve(r)

Spec == Init /\ [][Next]_vars

\* One request at a time: a request arrives after the one before it has
\* been answered.
NextSerial ==
    \/ ConnectFulfilled
    \/ ConnectRejected
    \/ Health
    \/ Serve(1)

SpecSerial == Init /\ [][NextSerial]_vars

\* The dashboard next to the requests that write students: a request is
\* GET /api/dashboard/stats or a POST, PUT or DELETE of a student, and the
\* requests are served concurrently.
NextStats ==
    \/ ConnectFulfilled
    \/ ConnectRejected
    \/ \E r \in Reqs :
        \/ Arrive(r)
        \/ EnsureDbConnection(r)
        \/ GetDashboardStats(r)
        \/ \E body \in StudentPostBodies : PostStudent(r, body)
        \/ \E id \in IdParams, body \in StudentPutBodies : PutStudent(r, id, body)
        \/ \E id \in IdParams : DeleteStudent(r, id)

SpecStats == Init /\ [][NextStats]_vars

\* The dashboard of a store that holds any number of students up to
\* MaxStudents, any number of them inactive and the others active, with the
\* connection made and no request but GET /api/dashboard/stats.
StoredStudent(i, status) ==
    [_id |-> "s" \o ToString(i), name |-> "Ann", email |-> ToString(i) \o "@x",
     course |-> "zz", enrollmentDate |-> "2024-01-01", status |-> status]

InitRate ==
    /\ atlasURI = TRUE
    /\ cached = [conn |-> TRUE, promise |-> "fulfilled"]
    /\ connectCalls = 1
    /\ pc = [r \in Reqs |-> "idle"]
    /\ arg = [r \in Reqs |-> "-"]
    /\ Course = {}
    /\ \E n \in 0..MaxStudents, g \in 0..MaxStudents :
        /\ g <= n
        /\ Student = {StoredStudent(i, IF i <= g THEN "inactive" ELSE "active") :
                        i \in 1..n}
        /\ oidCounter = n
    /\ deletedCourses = {}
    /\ res = NoRes

NextRate ==
    \/ Arrive(1)
    \/ EnsureDbConnection(1)
    \/ GetDashboardStats(1)

SpecRate == InitRate /\ [][NextRate]_vars

\* The detailed health check at the uptimes of the model.
NextUptime == \E ms \in Uptimes : HealthDetailed(ms)

SpecUptime == Init /\ [][NextUptime]_vars

\* ================================================================ claims
Awaiting == {r \in Reqs : pc[r] = "awaitConnectDB"}
InHandler == {r \in Reqs : pc[r] \in {"handler", "deleteCourse"}}

\* C1: however many connectDB calls there are and however they interleave,
\* mongoose.connect is invoked at most once: a caller that arrives while
\* the attempt is pending awaits that attempt, and the cached handle is the
\* result of that one attempt.
C1_ConnectAtMostOnce ==
    /\ connectCalls <= 1
    /\ Awaiting # {} /\ atlasURI => cached.promise # "none"
    /\ cached.conn => cached.promise = "fulfilled" /\ connectCalls = 1

\* Every request that is being served awaits one pending attempt.
C1_Witness ==
    /\ Awaiting = Reqs
    /\ cached.promise = "pending"
    /\ connectCalls = 1

\* C2: after a connection attempt has failed and the requests that awaited
\* it have been answered, the connectDB call of the next request starts a
\* fresh attempt.
C2_FailedAttemptIsRetried ==
    [][\A r \in Reqs :
        (/\ \A q \in Reqs : pc[q] = "idle"
         /\ cached.promise = "rejected"
         /\ pc'[r] = "awaitConnectDB")
            => (cached'.promise = "pending" /\ connectCalls' = connectCalls + 1)]_vars

\* C3: a route handler runs for a request only after connectDB has returned
\* the connection; a request whose connectDB call throws is answered 503
\* by the middleware, and the step that answers it runs no handler and
\* leaves the store alone.
C3_HandlerOnlyWithConnection ==
    /\ [](InHandler # {} => cached.conn)
    /\ [][\A r \in Reqs :
            (pc[r] = "awaitConnectDB" /\ pc'[r] # "awaitConnectDB"
                /\ ~(cached.conn \/ cached.promise = "fulfilled"))
            => /\ res' = Response("/api", "-", 503, "none")
               /\ pc'[r] = "idle"
               /\ UNCHANGED store]_vars

\* A request has been answered 503 after the attempt was rejected.
C3_Witness ==
    /\ res.status = 503
    /\ cached.promise = "rejected"

\* C4: when the dependency check of DELETE /api/courses/:id counts at least
\* one student whose course field equals :id, the request is answered 400
\* and the courses and the students are left as they were.
C4_DeleteRefusedWhileEnrolled ==
    [][\A r \in Reqs, id \in IdParams :
        (DeleteCourseCount(r, id) /\ countDocuments(id) > 0)
            => /\ res' = Response("DELETE /api/courses/:id", id, 400, "none")
               /\ pc'[r] = "idle"
               /\ Course' = Course
               /\ Student' = Student]_vars

\* The delete of a stored course was refused: the course is still stored.
C4_Witness ==
    /\ res.route = "DELETE /api/courses/:id"
    /\ res.status = 400
    /\ \E c \in Course : c._id = res.id
    /\ \E s \in Student : s.course = res.id

CourseIds == {c._id : c \in Course}
StudentIds == {d._id : d \in Student}
\* The identifiers the generator has not issued yet.
FreshIds == {OidOrder[i] : i \in (oidCounter + 1)..Len(OidOrder)}

C6_EmailsUnique ==
    /\ [](\A a, b \in Student : a.email = b.email => a = b)
    /\ [][\A r \in Reqs, body \in StudentPostBodies :
            (PostStudent(r, body) /\ \E s \in Student : s.email = body.email)
            => (res'.status = 400 /\ Student' = Student)]_vars

\* The unique index has refused a POST /api/students.
C6_Witness ==
    /\ res = Response("POST /api/students", "-", 400, "E11000")
    /\ Student # {}

C8_UpdateIsValidated ==
    [][\A r \in Reqs, id \in IdParams :
        /\ \A body \in CoursePutBodies :
            PutCourse(r, id, body) =>
                /\ (id \in CourseIds /\ body.status \notin {ABSENT, "active", "inactive"})
                    => (res'.status = 400 /\ Course' = Course)
                /\ id \in ObjectIds \ CourseIds => res'.status = 404
        /\ \A body \in StudentPutBodies :
            PutStudent(r, id, body) =>
                /\ (id \in StudentIds /\ body.status \notin {ABSENT, "active", "inactive"})
                    => (res'.status = 400 /\ Student' = Student)
                /\ id \in ObjectIds \ StudentIds => res'.status = 404]_vars

\* The status a lookup by identifier is claimed to answer with.
ByIdStatus(id, stored) ==
    IF id \notin ObjectIds THEN 400 ELSE IF id \notin stored THEN 404 ELSE 200

\* C9, as claimed: a GET of /api/students/<segment> is answered 400 for
\* every segment that is no well-formed identifier, 404 for a well-formed
\* one of no stored student and 200 for one of a stored student.
C9_GetStudentAsClaimed ==
    res.route \in {"GET /api/students/:id", "GET /api/students/search"}
        => res.status = ByIdStatus(res.id, StudentIds)

\* C9, amended: the same for every segment but the literal "search", which
\* the search route answers and the by-id route never sees.
C9_GetStudent ==
    /\ res.route = "GET /api/students/:id"
        => res.id # "search" /\ res.status = ByIdStatus(res.id, StudentIds)
    /\ res.route = "GET /api/students/search" => res.id = "search"

\* A GET of a malformed student identifier has been answered 400.
C9_Witness == res = Response("GET /api/students/:id", "zz", 400, "none")

\* C10, as claimed: every route with an :id answers a malformed :id 400.
ByIdRoutes ==
    {"GET /api/courses/:id", "PUT /api/courses/:id", "DELETE /api/courses/:id",
     "GET /api/students/:id", "PUT /api/students/:id", "DELETE /api/students/:id"}
C10_MalformedIdIs400 ==
    (res.route \in ByIdRoutes /\ res.id \notin ObjectIds) => res.status = 400

\* C10, what the code answers instead: a malformed :id is answered 400 by
\* the two PUT routes and by GET /api/students/:id, 500 by
\* GET /api/courses/:id and by DELETE /api/students/:id, and by
\* DELETE /api/courses/:id 400 when a student's course field equals it and
\* 500 when none does.
C10_MalformedIdStatus ==
    (res.route \in ByIdRoutes /\ res.id \notin ObjectIds) =>
        res.status =
            IF res.route \in {"PUT /api/courses/:id", "PUT /api/students/:id",
                              "GET /api/students/:id"}
            THEN 400
            ELSE IF res.route \in {"GET /api/courses/:id", "DELETE /api/students/:id"}
            THEN 500
            ELSE IF \E s \in Student : s.course = res.id THEN 400 ELSE 500

\* A GET of a malformed course identifier has been answered 500.
C10_Witness == res = Response("GET /api/courses/:id", "zz", 500, "CastError")
\* The search the claim describes: the term occurs, ignoring case, as a
\* substring of the string.
OccursIn(q, str) ==
    \E i \in 1..(Len(str) - Len(q) + 1) :
        \A j \in 1..Len(q) : Lower(q[j]) = Lower(str[i + j - 1])

\* C11: GET /api/students/search?q=X is answered 200 with exactly the
\* stored students in whose name, email or course X occurs, ignoring case,
\* as a substring.
C11_SearchIsSubstring ==
    [][\A r \in Reqs, q \in Queries :
        SearchStudents(r, "search", q) =>
            /\ res'.status = 200
            /\ res'.body = {s \in Student :
                                \/ OccursIn(q, Chars(s.name))
                                \/ OccursIn(q, Chars(s.email))
                                \/ OccursIn(q, Chars(s.course))}]_vars

\* C11, what the code answers for the terms without ".", "(" and the other
\* characters the syntax of regular expressions gives a meaning: those
\* students, each once.
C11_SearchOfLiteralTerm ==
    [][\A r \in Reqs, q \in Queries :
        (SearchStudents(r, "search", q)
            /\ \A i \in 1..Len(q) : q[i] \notin {".", "("}) =>
            /\ res'.status = 200
            /\ res'.body = {s \in Student :
                                \/ OccursIn(q, Chars(s.name))
                                \/ OccursIn(q, Chars(s.email))
                                \/ OccursIn(q, Chars(s.course))}]_vars
\* C13: GET /health can be served in every state, is answered 200 with
\* status UP whatever the state of the connection is, and changes neither
\* the connection cache, nor the count of connection attempts, nor the
\* stored records, nor the requests that are being served.
C13_HealthAlwaysUp ==
    /\ [](ENABLED Health)
    /\ [](res.route = "GET /health"
            => res.status = 200 /\ res.body = {[status |-> "UP"]})
    /\ [][Health => /\ res'.route = "GET /health"
                    /\ UNCHANGED <<atlasURI, cached, connectCalls>>
                    /\ UNCHANGED <<Course, Student, oidCounter, deletedCourses>>
                    /\ UNCHANGED <<pc, arg>>]_vars

\* GET /health has been answered 200 after the connection attempt failed.
C13_Witness ==
    /\ res.route = "GET /health"
    /\ res.status = 200
    /\ cached.promise = "rejected"
    /\ ~cached.conn

\* The units formatUptime is claimed to show: days, hours and minutes from
\* the first one that is not zero on, and seconds when they are not zero or
\* nothing else is.
ClaimedUptime(seconds) ==
    LET d == seconds \div 86400
        h == (seconds \div 3600) % 24
        m == (seconds \div 60) % 60
        sec == seconds % 60
    IN Join((IF d > 0 THEN <<ToString(d) \o "d">> ELSE <<>>)
            \o (IF d > 0 \/ h > 0 THEN <<ToString(h) \o "h">> ELSE <<>>)
            \o (IF d > 0 \/ h > 0 \/ m > 0 THEN <<ToString(m) \o "m">> ELSE <<>>)
            \o (IF sec > 0 \/ (d = 0 /\ h = 0 /\ m = 0)
                THEN <<ToString(sec) \o "s">> ELSE <<>>))

\* The formatted uptime of the response.
Formatted(response) == {b.uptime.formatted : b \in response.body}

\* C14, as claimed: formatUptime leaves out only the zero units before the
\* first unit that is not zero: 86461 gives "1d 0h 1m 1s".
C14_FormatUptimeAsClaimed ==
    [][\A ms \in Uptimes :
        (HealthDetailed(ms) /\ ms % 1000 = 0)
            => Formatted(res') = {ClaimedUptime(ms \div 1000)}]_vars

\* The units formatUptime shows: each of days, hours and minutes that is
\* not zero, and seconds when they are not zero or nothing else is.
ShownUptime(seconds) ==
    LET d == seconds \div 86400
        h == (seconds \div 3600) % 24
        m == (seconds \div 60) % 60
        sec == seconds % 60
    IN Join((IF d > 0 THEN <<ToString(d) \o "d">> ELSE <<>>)
            \o (IF h > 0 THEN <<ToString(h) \o "h">> ELSE <<>>)
            \o (IF m > 0 THEN <<ToString(m) \o "m">> ELSE <<>>)
            \o (IF sec > 0 \/ (d = 0 /\ h = 0 /\ m = 0)
                THEN <<ToString(sec) \o "s">> ELSE <<>>))

\* C14, amended: formatUptime leaves out every unit of days, hours and
\* minutes that is zero, wherever it stands, and shows the seconds when they
\* are not zero or no other unit is; 0 gives "0s", 90 gives "1m 30s" and
\* 86461 gives "1d 1m 1s".
C14_FormatUptime ==
    [][\A ms \in Uptimes :
        HealthDetailed(ms) =>
            /\ Formatted(res') = {ShownUptime(ms \div 1000)}
            /\ ms \div 1000 = 0 => Formatted(res') = {"0s"}
            /\ ms \div 1000 = 90 => Formatted(res') = {"1m 30s"}
            /\ ms \div 1000 = 86461 => Formatted(res') = {"1d 1m 1s"}
            /\ ms \div 1000 = 86400 => Formatted(res') = {"1d"}]_vars

\* The uptime of one day, one minute and one second has been formatted.
C14_Witness ==
    /\ res.route = "GET /health/detailed"
    /\ \E b \in res.body : b.uptime.seconds = 86461 /\ b.uptime.formatted = "1d 1m 1s"

\* C15: the dependency check and the delete of DELETE /api/courses/:id are
\* two store operations: a check that counts no student answers nothing and
\* changes nothing, and the delete that follows removes a stored course and
\* answers 200 whatever students are stored by then, so that a student
\* stored in between stays behind with the course field of a deleted course.
C15_CheckThenDelete ==
    [][\A r \in Reqs :
        /\ \A id \in IdParams :
            (DeleteCourseCount(r, id) /\ countDocuments(id) = 0)
            => /\ res' = NoRes
               /\ pc'[r] = "deleteCourse"
               /\ UNCHANGED <<Course, Student>>
        /\ (DeleteCourse(r) /\ arg[r] \in CourseIds)
            => /\ res' = Response("DELETE /api/courses/:id", arg[r], 200, "none")
               /\ Course' = {c \in Course : c._id # arg[r]}
               /\ Student' = Student]_vars

\* A DELETE has answered 200 and removed the course while a student whose
\* course field is its identifier is stored.
C15_Witness ==
    /\ res = Response("DELETE /api/courses/:id", res.id, 200, "none")
    /\ res.id \notin CourseIds
    /\ \E s \in Student : s.course = res.id

\* round(100 * g / n), a half rounded up.
RoundedPercent(g, n) == (200 * g + n) \div (2 * n)

\* C12: with no write while it runs, GET /api/dashboard/stats answers with
\* totalStudents the number N of the stored students, graduates the number G
\* of the inactive ones, and successRate 0 for N = 0 and round(100 * G / N),
\* a half rounded up, else.
C12_SuccessRateIsRounded ==
    res.route = "GET /api/dashboard/stats" =>
        \A stats \in res.body :
            LET N == Cardinality(Student)
                G == Cardinality({s \in Student : s.status = "inactive"})
            IN /\ stats.totalStudents = N
               /\ stats.graduates = G
               /\ stats.successRate = IF N = 0 THEN 0 ELSE RoundedPercent(G, N)

\* C12, what the code keeps: the two counts are N and G, and successRate is
\* round(100 * G / N) or, where the double of G / N times 100 falls just
\* below a half that 100 * G / N itself reaches, one less (for no N below 40).
C12_SuccessRateWithinOne ==
    res.route = "GET /api/dashboard/stats" =>
        \A stats \in res.body :
            LET N == Cardinality(Student)
                G == Cardinality({s \in Student : s.status = "inactive"})
            IN /\ stats.totalStudents = N
               /\ stats.graduates = G
               /\ N = 0 => stats.successRate = 0
               /\ N > 0 => stats.successRate \in
                               {RoundedPercent(G, N) - 1, RoundedPercent(G, N)}
               /\ (N > 0 /\ N < 40) => stats.successRate = RoundedPercent(G, N)
\* C16: the object GET /api/dashboard/stats answers with is consistent,
\* whatever student requests are served while it reads its counts:
\* graduates <= totalStudents, activeStudents + graduates = totalStudents,
\* and successRate is a whole number from 0 to 100.
C16_StatsConsistent ==
    res.route = "GET /api/dashboard/stats" =>
        \A stats \in res.body :
            /\ stats.graduates <= stats.totalStudents
            /\ stats.activeStudents + stats.graduates = stats.totalStudents
            /\ stats.successRate \in 0..100
====
